---- MODULE Spec2Model ----
\* Usage-heatmap lighting effect (src/src/fx/heatmap.c): the per-slot press
\* counters, the lifecycle flag, the key-event handler and the renderer's
\* max-count scan and hue interpolation.
EXTENDS Integers, Sequences, FiniteSets, TLC

\* ------------------------------------------------------------------ bounds

\* pixel_map_size of the modelled instance (DT_INST_PROP_LEN(idx, pixels)).
NumSlots == 2

\* Cap on the number of fx_heatmap_start calls of one behaviour.
MaxStarts == 2

\* Cap on the number of counted key presses of one behaviour.
MaxPresses == 2

\* Out-of-range indices the position resolver is allowed to return:
\* pixel_map_size .. pixel_map_size + MaxExcess - 1.
MaxExcess == 1

\* Cap on the number of times the host hands render_frame the buffer the
\* previous render_frame call left, with no other call in between.
MaxRepeats == 1

\* --------------------------------------------------------- uint32_t values
\* A uint32_t is kept as two 16-bit limbs <<hi, lo>> with value hi * 2^16 + lo.

Limb == 65536

U32(n) == <<n \div Limb, n % Limb>>

U32Zero == <<0, 0>>

U32Max == <<Limb - 1, Limb - 1>>

\* a > b on uint32_t
U32Gt(a, b) == a[1] > b[1] \/ (a[1] = b[1] /\ a[2] > b[2])

U32Le(a, b) == ~U32Gt(a, b)

\* c++ that loses the carry out of the low limb
U32IncNoCarry(c) == <<c[1], (c[2] + 1) % Limb>>

\* c++ on uint32_t: wraps from 2^32 - 1 to 0
U32Inc(c) ==
    IF c[2] = Limb - 1 THEN <<(c[1] + 1) % Limb, 0>> ELSE <<c[1], c[2] + 1>>

\* ------------------------------------------------------------------ floats
\* A non-negative IEEE-754 binary32 value is [m, e] with value m * 2^e and
\* 2^23 <= m < 2^24, or m = 0 for zero. The values the renderer computes are
\* all normal numbers.

Hidden == 8388608      \* 2^23
Mant == 16777216       \* 2^24
Half12 == 4096         \* 2^12

FloatZero == [m |-> 0, e |-> 0]

FloatOne == [m |-> Hidden, e |-> -23]

RECURSIVE BitLen(_)
BitLen(n) == IF n = 0 THEN 0 ELSE 1 + BitLen(n \div 2)

RECURSIVE Normalize(_, _)
\* exact conversion of the integer v * 2^e, v < 2^24
Normalize(v, e) ==
    IF v = 0 THEN FloatZero
    ELSE IF v < Hidden THEN Normalize(2 * v, e - 1)
    ELSE [m |-> v, e |-> e]

\* round-to-nearest-even of (m + rem / (2 * half)) * 2^e, rem < 2 * half
RoundNearestEven(m, rem, half, e) ==
    LET up == rem > half \/ (rem = half /\ m % 2 = 1)
    IN  IF ~up THEN [m |-> m, e |-> e]
        ELSE IF m + 1 = Mant THEN [m |-> Hidden, e |-> e + 1]
        ELSE [m |-> m + 1, e |-> e]

\* (float)c for a uint32_t c
U32ToFloat(c) ==
    IF c[1] < 256 THEN Normalize(c[1] * Limb + c[2], 0)
    ELSE LET s == BitLen(c[1]) - 8
         IN  RoundNearestEven(c[1] * 2^(16 - s) + c[2] \div 2^s,
                              (c[2] % 2^s) * 2, 2^s, s)

\* (float)d for an int d with 0 <= d < 2^24
IntToFloat(d) == Normalize(d, 0)

RECURSIVE LongDiv(_, _, _, _)
\* n more quotient bits of r / d, r < d: <<quotient, remainder>>
LongDiv(q, r, d, n) ==
    IF n = 0 THEN <<q, r>>
    ELSE IF 2 * r >= d THEN LongDiv(2 * q + 1, 2 * r - d, d, n - 1)
    ELSE LongDiv(2 * q, 2 * r, d, n - 1)

\* a / b on floats, b # 0, correctly rounded
FloatDiv(a, b) ==
    IF a.m = 0 THEN FloatZero
    ELSE LET qr == LongDiv(a.m \div b.m, a.m % b.m, b.m, 25)
             Q == qr[1]
             sticky == IF qr[2] # 0 THEN 1 ELSE 0
         IN  IF Q >= 2 * Mant
             THEN RoundNearestEven(Q \div 4, (Q % 4) * 2 + sticky, 4,
                                   a.e - b.e - 23)
             ELSE RoundNearestEven(Q \div 2, (Q % 2) * 2 + sticky, 2,
                                   a.e - b.e - 24)

\* a * b on floats, correctly rounded
FloatMul(a, b) ==
    IF a.m = 0 \/ b.m = 0 THEN FloatZero
    ELSE LET ah == a.m \div Half12
             al == a.m % Half12
             bh == b.m \div Half12
             bl == b.m % Half12
             cross == ah * bl + al * bh
             t == (cross % Half12) * Half12 + al * bl
             lo == t % Mant
             hi == ah * bh + cross \div Half12 + t \div Mant
         IN  IF hi >= Hidden
             THEN RoundNearestEven(hi, lo, Hidden, a.e + b.e + 24)
             ELSE RoundNearestEven(2 * hi + lo \div Hidden,
                                   (lo % Hidden) * 2, Hidden,
                                   a.e + b.e + 23)

\* a <= b on floats
FloatLe(a, b) ==
    \/ a.m = 0
    \/ b.m # 0 /\ (a.e < b.e \/ (a.e = b.e /\ a.m <= b.m))

\* (int16_t)f for a non-negative float below 2^15: truncation toward zero
FloatTrunc(f) ==
    IF f.m = 0 \/ f.e <= -24 THEN 0
    ELSE IF f.e >= 0 THEN f.m * 2^(f.e)
    ELSE f.m \div 2^(-(f.e))

\* ---------------------------------------------------------------- renderer

Slots == 0 .. NumSlots - 1

\* the scan pass with max_count started at 0 instead of 1
ScanFromZero(counts) ==
    LET RECURSIVE Scan(_, _)
        Scan(i, max) ==
            IF i >= NumSlots THEN max
            ELSE IF U32Gt(counts[i], max) THEN Scan(i + 1, counts[i])
            ELSE Scan(i + 1, max)
    IN  Scan(0, U32Zero)

\* the scan pass: max_count starts at 1 and takes every larger count
MaxCount(counts) ==
    LET RECURSIVE Scan(_, _)
        Scan(i, max) ==
            IF i >= NumSlots THEN max
            ELSE IF U32Gt(counts[i], max) THEN Scan(i + 1, counts[i])
            ELSE Scan(i + 1, max)
    IN  Scan(0, U32(1))

\* float usage = (float)key_counts[i] / (float)max_count
Usage(count, max_count) == FloatDiv(U32ToFloat(count), U32ToFloat(max_count))

\* int16_t hue_delta = hot - cold without the folding
HueDeltaUnfolded(cold, hot) == hot - cold

\* int16_t hue_delta = hot - cold, folded onto the shorter arc
HueDelta(cold, hot) ==
    LET hue_delta == hot - cold
    IN  IF hue_delta > 180 THEN hue_delta - 360
        ELSE IF hue_delta < -180 THEN hue_delta + 360
        ELSE hue_delta

\* (int16_t)(hue_delta * usage): float product, truncated toward zero
ScaledDelta(hue_delta, usage) ==
    IF hue_delta >= 0
    THEN FloatTrunc(FloatMul(IntToFloat(hue_delta), usage))
    ELSE -FloatTrunc(FloatMul(IntToFloat(-hue_delta), usage))

\* the assignment to uint16_t hue without the range loops
HueUnwrapped(h) == h

\* while (hue >= 360) hue -= 360, on a uint16_t: the remainder of h by 360;
\* the loop on hue < 0 that follows never runs on an unsigned hue
HueWrap(h) == h % 360

\* uint16_t hue = cold + (int16_t)(hue_delta * usage), then the range loops
Hue(cold, hot, usage) ==
    HueWrap((cold + ScaledDelta(HueDelta(cold, hot), usage)) % Limb)

\* ------------------------------------------------------------ colour model
\* zmk_hsl_to_rgb and zmk_apply_blending_mode are declared in zmk/rgb_fx.h
\* and defined outside heatmap.c. A colour is <<r, g, b>> with channels in
\* 0 .. ChannelMax.

ChannelMax == 255

BlendingModes == {"overwrite", "additive", "multiplicative"}

Abs(x) == IF x < 0 THEN -x ELSE x

Min(a, b) == IF a < b THEN a ELSE b

\* hue in degrees, saturation and lightness in percent
zmk_hsl_to_rgb(h, s, l) ==
    LET c == ((100 - Abs(2 * l - 100)) * s) \div 100
        x == (c * (60 - Abs((h % 120) - 60))) \div 60
        m == l - c \div 2
        sector == (h \div 60) % 6
        rgb1 == CASE sector = 0 -> <<c, x, 0>>
                  [] sector = 1 -> <<x, c, 0>>
                  [] sector = 2 -> <<0, c, x>>
                  [] sector = 3 -> <<0, x, c>>
                  [] sector = 4 -> <<x, 0, c>>
                  [] OTHER -> <<c, 0, x>>
    IN  <<((rgb1[1] + m) * ChannelMax) \div 100,
          ((rgb1[2] + m) * ChannelMax) \div 100,
          ((rgb1[3] + m) * ChannelMax) \div 100>>

\* base is the value already in the buffer, blend the computed colour
zmk_apply_blending_mode(base, blend, mode) ==
    CASE mode = "overwrite" -> blend
      [] mode = "additive" ->
            <<Min(ChannelMax, base[1] + blend[1]),
              Min(ChannelMax, base[2] + blend[2]),
              Min(ChannelMax, base[3] + blend[3])>>
      [] OTHER ->
            <<(base[1] * blend[1]) \div ChannelMax,
              (base[2] * blend[2]) \div ChannelMax,
              (base[3] * blend[3]) \div ChannelMax>>

\* ------------------------------------------------------------------- state

VARIABLES
    color_cold_hue,    \* config->color_cold_hue
    color_hot_hue,     \* config->color_hot_hue
    is_active,         \* data->is_active
    pixel_map,         \* config->pixel_map[0 .. pixel_map_size - 1]
    blending_mode,     \* config->blending_mode
    num_pixels,        \* length of the buffer the host renders into
    key_counts,        \* data->key_counts[0 .. pixel_map_size - 1]
    frames_requested,  \* number of zmk_rgb_fx_request_frames(1) calls so far
    last,              \* the most recent call: operation, arguments, results
    starts,            \* history: number of fx_heatmap_start calls
    counted,           \* history: number of presses that reached the increment
    last_toggle,       \* history: the most recent of start / stop
    inited,            \* history: fx_heatmap_init has run in this behaviour
    since_init,        \* history: per slot, counted presses since the last init
    rf                 \* the render_frame call in progress, when its steps
                       \* interleave with the other handlers

vars == <<color_cold_hue, color_hot_hue, pixel_map, blending_mode,
          num_pixels, is_active, key_counts,
          frames_requested, last, starts, counted, last_toggle, inited,
          since_init, rf>>

config == <<color_cold_hue, color_hot_hue, pixel_map, blending_mode,
            num_pixels>>

\* config->saturation and config->lightness of the modelled configurations
saturation == 50

lightness == 40

pixel_map_size == NumSlots

\* <<color_cold_hue, color_hot_hue>> of the modelled configurations, each hue
\* in [0, 360): a rising and a falling arc, both arcs across the 0/360 seam,
\* and a half turn
HuePairs == {<<0, 120>>, <<120, 0>>, <<350, 10>>, <<10, 350>>, <<0, 180>>}

\* the blending mode configured with each pair of hues
SampleBlend(pair) ==
    CASE pair \in {<<0, 120>>, <<120, 0>>} -> "overwrite"
      [] pair \in {<<350, 10>>, <<0, 180>>} -> "additive"
      [] OTHER -> "multiplicative"

\* the pixel map configured with each pair of hues: slot i on pixel i, or
\* the slots in reverse order
SampleMap(pair) ==
    IF pair \in {<<0, 120>>, <<350, 10>>}
    THEN [i \in Slots |-> i]
    ELSE [i \in Slots |-> NumSlots - 1 - i]

\* the buffer the host hands to a first render_frame call: n pixels with
\* pairwise different values
FreshBuffer(n) == [p \in 0 .. n - 1 |-> <<40 * (p + 1), 100, 200>>]

\* counter values of the states the second specification starts from
CountSamples == {U32Zero, <<256, 1>>, U32Max}

\* the events the listener can be handed: a position press or release, or an
\* event for which as_zmk_position_state_changed returns NULL
Events == {[kind |-> "other"]}
          \cup {[kind |-> "position", state |-> s] : s \in BOOLEAN}

\* results of zmk_rgb_fx_get_pixel_by_key_position
PixelIdxs == 0 .. pixel_map_size + MaxExcess - 1

NoIdx == -1

ZeroCounts == [i \in Slots |-> U32Zero]

ZeroPresses == [i \in Slots |-> 0]

\* no render_frame call is in progress
Idle == [pc |-> "idle"]

\* a handler ran while a render_frame call was in progress; hit: it
\* incremented a counter
Interleave(r, hit) ==
    IF r.pc = "idle" THEN r
    ELSE [r EXCEPT !.interleaved = TRUE,
                   !.hits = IF hit THEN 1 ELSE @]

\* static storage of FX_HEATMAP_DEVICE: counters zero, is_active = false
Init ==
    /\ \E pair \in HuePairs :
           /\ color_cold_hue = pair[1]
           /\ color_hot_hue = pair[2]
           /\ blending_mode = SampleBlend(pair)
           /\ pixel_map = SampleMap(pair)
    /\ num_pixels = NumSlots + 1
    /\ is_active = FALSE
    /\ key_counts = ZeroCounts
    /\ frames_requested = 0
    /\ last = [op |-> "none"]
    /\ starts = 0
    /\ counted = 0
    /\ last_toggle = "none"
    /\ inited = FALSE
    /\ since_init = ZeroPresses
    /\ rf = Idle

\* any state of the instance after some earlier run: counters and flag drawn
\* from samples, the history counted from here on
InitReachable ==
    /\ \E pair \in HuePairs :
           /\ color_cold_hue = pair[1]
           /\ color_hot_hue = pair[2]
           /\ blending_mode = SampleBlend(pair)
           /\ pixel_map = SampleMap(pair)
    /\ num_pixels = NumSlots + 1
    /\ is_active \in BOOLEAN
    /\ key_counts \in [Slots -> CountSamples]
    /\ frames_requested = 0
    /\ last = [op |-> "none"]
    /\ starts = 0
    /\ counted = 0
    /\ last_toggle = IF is_active THEN "start" ELSE "stop"
    /\ inited = FALSE
    /\ since_init = ZeroPresses
    /\ rf = Idle

\* a configuration whose pixel map reaches past the buffer the host renders
\* into: every map entry >= num_pixels is out of range
InitCorrupt ==
    /\ \E pair \in HuePairs :
           /\ color_cold_hue = pair[1]
           /\ color_hot_hue = pair[2]
           /\ blending_mode = SampleBlend(pair)
           /\ pixel_map = SampleMap(pair)
    /\ num_pixels = NumSlots - 1
    /\ is_active = FALSE
    /\ key_counts = ZeroCounts
    /\ frames_requested = 0
    /\ last = [op |-> "none"]
    /\ starts = 0
    /\ counted = 0
    /\ last_toggle = "none"
    /\ inited = FALSE
    /\ since_init = ZeroPresses
    /\ rf = Idle

\* an out-of-bounds store of render_frame has stopped the firmware
Faulted == last.op = "render_frame" /\ last.fault

\* ----------------------------------------------------------- usage tracker

\* the handler's exits with pixel_idx > pixel_map_size as the range check
KeyPressPathOffByOne(active, event, pixel_idx) ==
    IF ~active THEN "inactive"
    ELSE IF event.kind # "position" THEN "unsupported"
    ELSE IF ~event.state THEN "release"
    ELSE IF pixel_idx > pixel_map_size THEN "invalid"
    ELSE "counted"

\* the handler's exits without the is_active test
KeyPressPathAlwaysActive(active, event, pixel_idx) ==
    IF event.kind # "position" THEN "unsupported"
    ELSE IF ~event.state THEN "release"
    ELSE IF pixel_idx >= pixel_map_size THEN "invalid"
    ELSE "counted"

\* the handler's exits with an unrecognised event treated as ignorable
KeyPressPathIgnoreOther(active, event, pixel_idx) ==
    IF ~active THEN "inactive"
    ELSE IF event.kind # "position" THEN "release"
    ELSE IF ~event.state THEN "release"
    ELSE IF pixel_idx >= pixel_map_size THEN "invalid"
    ELSE "counted"

\* the exit fx_heatmap_on_key_press takes, in the order of its tests
KeyPressPath(active, event, pixel_idx) ==
    IF ~active THEN "inactive"
    ELSE IF event.kind # "position" THEN "unsupported"
    ELSE IF ~event.state THEN "release"
    ELSE IF pixel_idx >= pixel_map_size THEN "invalid"
    ELSE "counted"

\* the value returned at each exit
KeyPressReturn(path) ==
    IF path = "unsupported" THEN "-ENOTSUP"
    ELSE IF path = "invalid" THEN "-EINVAL"
    ELSE "0"

fx_heatmap_on_key_press(event, pixel_idx) ==
    LET path == KeyPressPath(is_active, event, pixel_idx)
        hit == path = "counted"
    IN  /\ ~Faulted
        /\ path = "counted" => counted < MaxPresses
        /\ key_counts' = IF hit
                         THEN [key_counts EXCEPT ![pixel_idx] = U32Inc(@)]
                         ELSE key_counts
        /\ frames_requested' = IF path = "counted" THEN frames_requested + 1
                               ELSE frames_requested
        /\ last' = [op |-> "on_key_press", event |-> event,
                    pixel_idx |-> IF event.kind = "position" THEN pixel_idx
                                  ELSE NoIdx,
                    ret |-> KeyPressReturn(path)]
        /\ counted' = IF path = "counted" THEN counted + 1 ELSE counted
        /\ since_init' = IF hit
                         THEN [since_init EXCEPT ![pixel_idx] = @ + 1]
                         ELSE since_init
        /\ rf' = Interleave(rf, hit)
        /\ UNCHANGED <<config, is_active, starts, last_toggle, inited>>

\* -------------------------------------------------------- heatmap renderer

\* the blend of slot i written to pixels[i] instead of pixels[pixel_map[i]]
BlendSlotUnmapped(pixels, i, hue) ==
    IF i \in DOMAIN pixels
    THEN [pixels EXCEPT ![i] =
              zmk_apply_blending_mode(
                  @, zmk_hsl_to_rgb(hue, saturation, lightness),
                  blending_mode)]
    ELSE pixels

\* the blend of slot i with a fixed mode in place of config->blending_mode
BlendSlotFixedMode(pixels, i, hue) ==
    IF pixel_map[i] \in DOMAIN pixels
    THEN [pixels EXCEPT ![pixel_map[i]] =
              zmk_apply_blending_mode(
                  @, zmk_hsl_to_rgb(hue, saturation, lightness),
                  "additive")]
    ELSE pixels

\* pixels[pixel_map[i]].value = zmk_apply_blending_mode(
\*     pixels[pixel_map[i]].value, color_rgb, config->blending_mode),
\* as seen in the buffer: a store past its end changes none of its entries
BlendSlot(pixels, i, hue) ==
    IF pixel_map[i] \in DOMAIN pixels
    THEN [pixels EXCEPT ![pixel_map[i]] =
              zmk_apply_blending_mode(
                  @, zmk_hsl_to_rgb(hue, saturation, lightness),
                  blending_mode)]
    ELSE pixels

RECURSIVE RenderPass(_, _, _, _)
\* the per-pixel loop from slot i up to, not including, slot upto
RenderPass(pixels, hue, i, upto) ==
    IF i >= upto THEN pixels
    ELSE RenderPass(BlendSlot(pixels, i, hue[i]), hue, i + 1, upto)

\* the slots whose pixel_map entry is no index of the buffer
OutOfRangeSlots(pixels) == {i \in Slots : pixel_map[i] \notin DOMAIN pixels}

\* render_frame on the buffer `pixels`. A store past the end of the buffer
\* is undefined: it either lands in the memory behind the buffer, and the
\* loop goes on, or it faults at the first such slot.
fx_heatmap_render_frame(pixels) ==
    LET max_count == MaxCount(key_counts)
        usage == [i \in Slots |-> Usage(key_counts[i], max_count)]
        hue == [i \in Slots |->
                   Hue(color_cold_hue, color_hot_hue, usage[i])]
        out == OutOfRangeSlots(pixels)
        first == IF out = {} THEN NumSlots
                 ELSE CHOOSE i \in out : \A j \in out : i <= j
        again == last.op = "render_frame" /\ pixels = last.pixels_out
    IN  /\ ~Faulted
        /\ rf.pc = "idle"
        /\ \E fault \in (IF out = {} THEN {FALSE} ELSE BOOLEAN) :
               last' = [op |-> "render_frame", max_count |-> max_count,
                        usage |-> usage, hue |-> hue,
                        hue_delta |-> HueDelta(color_cold_hue, color_hot_hue),
                        pixels_in |-> pixels,
                        pixels_out |->
                            RenderPass(pixels, hue, 0,
                                       IF fault THEN first ELSE NumSlots),
                        stored |-> {pixel_map[i] :
                                      i \in {j \in Slots :
                                                 ~fault \/ j <= first}},
                        fault |-> fault,
                        repeat |-> IF again THEN last.repeat + 1 ELSE 0]
        /\ UNCHANGED <<config, is_active, key_counts, frames_requested,
                       starts, counted, last_toggle, inited, since_init, rf>>

\* the buffers the host can hand to render_frame: a fresh one, or the one
\* the previous call rendered into
RenderInputs ==
    {FreshBuffer(num_pixels)}
    \cup (IF last.op = "render_frame" /\ last.repeat < MaxRepeats
          THEN {last.pixels_out} ELSE {})

RenderFrame == \E pixels \in RenderInputs : fx_heatmap_render_frame(pixels)

\* ------------------------------------------- render_frame, one read a step
\* The same function run one counter read at a time, so that the other
\* handlers can run between two reads. A read of key_counts[i] that races
\* with the handler's increment returns the value before or after it, which
\* is the order of the two steps.

\* the scan with the assignment left out
ScanStepKeep(max_count, count) == max_count

\* if (key_counts[i] > max_count) max_count = key_counts[i]
ScanStep(max_count, count) ==
    IF U32Gt(count, max_count) THEN count ELSE max_count

\* entry: max_count = 1, before the first read; the host hands a buffer it
\* has just cleared
RenderBegin ==
    /\ ~Faulted
    /\ rf.pc = "idle"
    /\ rf' = [pc |-> "scan", i |-> 0, max_count |-> U32(1),
              count |-> <<>>, usage |-> <<>>, hue |-> <<>>,
              pixels_in |-> FreshBuffer(num_pixels),
              pixels |-> FreshBuffer(num_pixels),
              interleaved |-> FALSE, hits |-> 0]
    /\ UNCHANGED <<config, is_active, key_counts, frames_requested, last,
                   starts, counted, last_toggle, inited, since_init>>

\* one iteration of the scan loop; after the last one the pixel loop starts
RenderScanStep ==
    /\ rf.pc = "scan"
    /\ rf' = [rf EXCEPT !.max_count = ScanStep(@, key_counts[rf.i]),
                        !.i = IF rf.i + 1 < NumSlots THEN rf.i + 1 ELSE 0,
                        !.pc = IF rf.i + 1 < NumSlots THEN "scan"
                               ELSE "pixels"]
    /\ UNCHANGED <<config, is_active, key_counts, frames_requested, last,
                   starts, counted, last_toggle, inited, since_init>>

\* one iteration of the pixel loop: read key_counts[i], blend pixel_map[i];
\* the sequences count, usage and hue hold slot i at position i + 1
RenderPixelStep ==
    /\ rf.pc = "pixels"
    /\ rf.i < NumSlots
    /\ LET count == key_counts[rf.i]
           usage == Usage(count, rf.max_count)
           hue == Hue(color_cold_hue, color_hot_hue, usage)
       IN  rf' = [rf EXCEPT !.count = Append(@, count),
                            !.usage = Append(@, usage),
                            !.hue = Append(@, hue),
                            !.pixels = BlendSlot(@, rf.i, hue),
                            !.i = rf.i + 1]
    /\ UNCHANGED <<config, is_active, key_counts, frames_requested, last,
                   starts, counted, last_toggle, inited, since_init>>

\* the pixel loop has ended and render_frame returns
RenderReturn ==
    /\ rf.pc = "pixels"
    /\ rf.i = NumSlots
    /\ last' = [op |-> "render_frame", max_count |-> rf.max_count,
                usage |-> [i \in Slots |-> rf.usage[i + 1]],
                hue |-> [i \in Slots |-> rf.hue[i + 1]],
                hue_delta |-> HueDelta(color_cold_hue, color_hot_hue),
                pixels_in |-> rf.pixels_in, pixels_out |-> rf.pixels,
                stored |-> {pixel_map[i] : i \in Slots},
                fault |-> FALSE, repeat |-> 0]
    /\ rf' = Idle
    /\ UNCHANGED <<config, is_active, key_counts, frames_requested, starts,
                   counted, last_toggle, inited, since_init>>

\* ----------------------------------------------------- lifecycle controller

\* start without the frame request
fx_heatmap_start_silent ==
    /\ ~Faulted
    /\ starts < MaxStarts
    /\ is_active' = TRUE
    /\ frames_requested' = frames_requested
    /\ last' = [op |-> "start"]
    /\ starts' = starts + 1
    /\ last_toggle' = "start"
    /\ rf' = Interleave(rf, FALSE)
    /\ UNCHANGED <<config, key_counts, counted, inited, since_init>>

fx_heatmap_start ==
    /\ ~Faulted
    /\ starts < MaxStarts
    /\ is_active' = TRUE
    /\ frames_requested' = frames_requested + 1
    /\ last' = [op |-> "start"]
    /\ starts' = starts + 1
    /\ last_toggle' = "start"
    /\ rf' = Interleave(rf, FALSE)
    /\ UNCHANGED <<config, key_counts, counted, inited, since_init>>

\* stop that also clears the counters
fx_heatmap_stop_clearing ==
    /\ ~Faulted
    /\ is_active' = FALSE
    /\ key_counts' = ZeroCounts
    /\ last' = [op |-> "stop"]
    /\ last_toggle' = "stop"
    /\ rf' = Interleave(rf, FALSE)
    /\ UNCHANGED <<config, frames_requested, starts, counted, inited,
                   since_init>>

\* stop that leaves the flag as it is
fx_heatmap_stop_keeping ==
    /\ ~Faulted
    /\ is_active' = is_active
    /\ last' = [op |-> "stop"]
    /\ last_toggle' = "stop"
    /\ rf' = Interleave(rf, FALSE)
    /\ UNCHANGED <<config, key_counts, frames_requested, starts, counted,
                   inited, since_init>>

fx_heatmap_stop ==
    /\ ~Faulted
    /\ is_active' = FALSE
    /\ last' = [op |-> "stop"]
    /\ last_toggle' = "stop"
    /\ rf' = Interleave(rf, FALSE)
    /\ UNCHANGED <<config, key_counts, frames_requested, starts, counted,
                   inited, since_init>>

\* the zeroing loop started at index 1
InitCountsFromOne(counts) ==
    [i \in Slots |-> IF i < 1 THEN counts[i] ELSE U32Zero]

\* for (i = 0; i < pixel_map_size; ++i) key_counts[i] = 0
InitCounts(counts) == [i \in Slots |-> U32Zero]

fx_heatmap_init ==
    /\ ~Faulted
    /\ key_counts' = InitCounts(key_counts)
    /\ last' = [op |-> "init", ret |-> "0"]
    /\ inited' = TRUE
    /\ since_init' = ZeroPresses
    /\ rf' = Interleave(rf, FALSE)
    /\ UNCHANGED <<config, is_active, frames_requested, starts, counted,
                   last_toggle>>

\* ------------------------------------------------------------ specification

OnKeyEvent ==
    \E event \in Events, pixel_idx \in PixelIdxs :
        fx_heatmap_on_key_press(event, pixel_idx)

Next ==
    \/ fx_heatmap_init
    \/ fx_heatmap_start
    \/ fx_heatmap_stop
    \/ OnKeyEvent
    \/ RenderFrame

Spec == Init /\ [][Next]_vars

SpecReachable == InitReachable /\ [][Next]_vars

SpecCorrupt == InitCorrupt /\ [][Next]_vars

\* the handlers with render_frame run one read at a time
NextInterleaved ==
    \/ fx_heatmap_init
    \/ fx_heatmap_start
    \/ fx_heatmap_stop
    \/ OnKeyEvent
    \/ RenderBegin
    \/ RenderScanStep
    \/ RenderPixelStep
    \/ RenderReturn

SpecInterleaved == Init /\ [][NextInterleaved]_vars

\* ------------------------------------------------------------------ claims

KeyStep == last'.op = "on_key_press"

PressStep == KeyStep /\ last'.event.kind = "position" /\ last'.event.state

ReleaseStep == KeyStep /\ last'.event.kind = "position" /\ ~last'.event.state

\* b = a + 1 modulo 2^32, on the limbs
U32Succ(a, b) ==
    \/ a[2] < Limb - 1 /\ b = <<a[1], a[2] + 1>>
    \/ a[2] = Limb - 1 /\ a[1] < Limb - 1 /\ b = <<a[1] + 1, 0>>
    \/ a = U32Max /\ b = U32Zero

\* C1: a key-event step changes a counter only if the effect is active at
\* that step and the event is a position press; every release and every event
\* delivered while inactive leaves all counters unchanged and returns 0.
C1_CountOnlyActivePress ==
    [][KeyStep =>
         /\ key_counts' # key_counts => is_active /\ PressStep
         /\ (~is_active \/ ReleaseStep) =>
                key_counts' = key_counts /\ last'.ret = "0"]_vars

\* a press resolving to slot 0 was delivered after stop and the non-zero
\* count of slot 0 is still there
C1_Witness ==
    /\ last.op = "on_key_press"
    /\ last.event = [kind |-> "position", state |-> TRUE]
    /\ last.pixel_idx = 0
    /\ ~is_active
    /\ last_toggle = "stop"
    /\ key_counts[0] = U32(2)
    /\ last.ret = "0"

\* C2: while active, a press resolving to r < pixel_map_size adds exactly 1
\* (modulo 2^32) to key_counts[r], leaves the other counters alone and returns
\* 0; so once init has run, each counter equals the number of counted presses
\* of its slot since that init.
C2_PressIncrementsByOne ==
    /\ [][(PressStep /\ is_active /\ last'.pixel_idx < pixel_map_size) =>
            /\ U32Succ(key_counts[last'.pixel_idx],
                       key_counts'[last'.pixel_idx])
            /\ \A j \in Slots \ {last'.pixel_idx} :
                   key_counts'[j] = key_counts[j]
            /\ last'.ret = "0"]_vars
    /\ [](inited => \A s \in Slots : key_counts[s] = U32(since_init[s]))

\* init, start and MaxPresses presses of the last slot: its counter is
\* MaxPresses, the others are 0
C2_Witness ==
    /\ inited
    /\ is_active
    /\ last.op = "on_key_press"
    /\ last.pixel_idx = pixel_map_size - 1
    /\ since_init[pixel_map_size - 1] = MaxPresses
    /\ key_counts[pixel_map_size - 1] = U32(MaxPresses)
    /\ \A j \in Slots \ {pixel_map_size - 1} : key_counts[j] = U32Zero

\* C3: while active, a press whose resolved index is >= pixel_map_size
\* returns -EINVAL, changes no counter and not the flag, and requests no frame.
C3_InvalidIndexRejected ==
    [][(PressStep /\ is_active /\ last'.pixel_idx >= pixel_map_size) =>
         /\ last'.ret = "-EINVAL"
         /\ key_counts' = key_counts
         /\ is_active' = is_active
         /\ frames_requested' = frames_requested]_vars

\* an out-of-range press was rejected while active with counts on record
C3_Witness ==
    /\ last.op = "on_key_press"
    /\ last.pixel_idx = pixel_map_size
    /\ last.ret = "-EINVAL"
    /\ is_active
    /\ key_counts # ZeroCounts

OtherStep == KeyStep /\ last'.event.kind = "other"

\* C4 as stated: an event that is not a position event returns -ENOTSUP in
\* either lifecycle state, with no counter, flag or frame-request change.
C4_Original ==
    [][OtherStep =>
         /\ last'.ret = "-ENOTSUP"
         /\ key_counts' = key_counts
         /\ is_active' = is_active
         /\ frames_requested' = frames_requested]_vars

\* C4 amended: an event that is not a position event changes no counter, not
\* the flag and requests no frame; it returns -ENOTSUP while active and 0
\* while inactive, where the is_active test returns first.
C4_UnsupportedWhileActive ==
    [][OtherStep =>
         /\ last'.ret = IF is_active THEN "-ENOTSUP" ELSE "0"
         /\ key_counts' = key_counts
         /\ is_active' = is_active
         /\ frames_requested' = frames_requested]_vars

\* a non-position event was refused while active
C4_Witness ==
    /\ last.op = "on_key_press"
    /\ last.event.kind = "other"
    /\ last.ret = "-ENOTSUP"
    /\ is_active

\* C5: is_active is false at construction and afterwards true exactly when a
\* start has occurred and the most recent start/stop call was start; init,
\* the key-event handler and render_frame never change it.
C5_ActiveFollowsStartStop ==
    /\ [](is_active <=> (starts >= 1 /\ last_toggle = "start"))
    /\ [][last'.op \in {"init", "on_key_press", "render_frame"} =>
            is_active' = is_active]_vars

\* the flag is down after start, stop, start, stop
C5_Witness ==
    /\ starts = 2
    /\ last_toggle = "stop"
    /\ last.op = "stop"
    /\ ~is_active

\* C6: start and stop leave every counter unchanged, so counts survive
\* stop/start cycles.
C6_StartStopKeepCounts ==
    [][last'.op \in {"start", "stop"} => key_counts' = key_counts]_vars

\* a second start finds the counts of the first active period
C6_Witness ==
    /\ last.op = "start"
    /\ starts = 2
    /\ counted >= 2
    /\ key_counts[0] = U32(2)

\* C7: init, in any state, zeroes every counter and returns 0, touching
\* nothing else, and a second init right after it changes nothing.
C7_InitZeroesAll ==
    [][last'.op = "init" =>
         /\ \A i \in Slots : key_counts'[i] = U32Zero
         /\ last'.ret = "0"
         /\ is_active' = is_active
         /\ frames_requested' = frames_requested
         /\ last.op = "init" => UNCHANGED vars]_vars

\* init ran while active, after presses had been counted
C7_Witness ==
    /\ last.op = "init"
    /\ is_active
    /\ counted >= 1
    /\ key_counts = ZeroCounts

\* C8: a step requests exactly one frame if it is a start or a key event
\* that increments a counter, and none otherwise; the total of requests is
\* the number of starts plus the number of counted presses.
C8_FrameRequests ==
    /\ [][frames_requested' - frames_requested =
            IF \/ last'.op = "start"
               \/ KeyStep /\ key_counts' # key_counts
            THEN 1 ELSE 0]_vars
    /\ [](frames_requested = starts + counted)

\* two starts and a counted press made three requests, and the stop that
\* followed made none
C8_Witness ==
    /\ last.op = "stop"
    /\ starts = 2
    /\ counted = 1
    /\ frames_requested = 3

\* max(1, max over the slots of counts[i])
Max1(counts) ==
    LET S == {U32(1)} \cup {counts[i] : i \in Slots}
    IN  CHOOSE v \in S : \A w \in S : U32Le(w, v)

\* C9: the max_count of every render_frame call is max(1, max of the
\* counters) and so at least 1.
C9_MaxCountFloor ==
    last.op = "render_frame" =>
        /\ last.max_count = Max1(key_counts)
        /\ U32Le(U32(1), last.max_count)

\* a frame was rendered with every counter at zero, one of them after
\* wrapping around
C9_Witness ==
    /\ last.op = "render_frame"
    /\ key_counts = ZeroCounts
    /\ ~inited
    /\ \E s \in Slots : since_init[s] > 0
    /\ last.max_count = U32(1)

\* C10: in every render_frame call each counter is at most max_count, each
\* usage is in [0, 1] and each hue is an integer in [0, 360).
C10_UsageAndHueRange ==
    last.op = "render_frame" =>
        \A i \in Slots :
            /\ U32Le(key_counts[i], last.max_count)
            /\ last.usage[i].m >= 0
            /\ FloatLe(last.usage[i], FloatOne)
            /\ last.hue[i] \in 0 .. 359

\* a most-used slot was rendered across the 0/360 seam: 350 + 20 gives 10
C10_Witness ==
    /\ last.op = "render_frame"
    /\ color_cold_hue = 350
    /\ color_hot_hue = 10
    /\ \E i \in Slots :
           /\ key_counts[i] = last.max_count
           /\ key_counts[i] # U32Zero
           /\ last.hue[i] = 10

\* C11 as stated: a slot whose count is 0 is rendered with cold_hue and a
\* slot whose non-zero count equals max_count is rendered with hot_hue.
C11_Original ==
    last.op = "render_frame" =>
        \A i \in Slots :
            /\ key_counts[i] = U32Zero => last.hue[i] = color_cold_hue
            /\ (key_counts[i] = last.max_count /\ key_counts[i] # U32Zero) =>
                   last.hue[i] = color_hot_hue

\* C12: the hue delta render_frame uses is congruent to hot - cold modulo
\* 360 and lies in [-180, 180].
C12_ShorterArc ==
    last.op = "render_frame" =>
        /\ last.hue_delta \in -180 .. 180
        /\ (last.hue_delta - (color_hot_hue - color_cold_hue)) % 360 = 0

\* a frame was rendered from cold 350 to hot 10 with delta +20
C12_Witness ==
    /\ last.op = "render_frame"
    /\ color_cold_hue = 350
    /\ color_hot_hue = 10
    /\ last.hue_delta = 20

\* n / d rounded to the nearest integer, halves away from zero
RoundDiv(n, d) ==
    IF n >= 0 THEN (2 * n + d) \div (2 * d)
    ELSE -((2 * (-n) + d) \div (2 * d))

\* C13 as stated, for counts below 2^16: the hue of slot i is
\* cold + round(delta * count / max_count), reduced modulo 360.
C13_Original ==
    last.op = "render_frame" =>
        \A i \in Slots :
            (key_counts[i][1] = 0 /\ last.max_count[1] = 0) =>
                last.hue[i] =
                    (color_cold_hue
                     + RoundDiv(last.hue_delta * key_counts[i][2],
                                last.max_count[2])) % 360

\* the colour render_frame computes for a slot rendered with hue h
SlotColour(h) == zmk_hsl_to_rgb(h, saturation, lightness)

\* C14 as stated: a render_frame call on the buffer the previous call left,
\* with no call in between, leaves that buffer as it was, whatever the
\* blending mode.
C14_Original ==
    (last.op = "render_frame" /\ last.repeat >= 1) =>
        last.pixels_out = last.pixels_in

\* C14 amended: such a repeated call leaves the buffer as it was when the
\* blending mode is overwrite, whose result ignores the previous value.
C14_IdempotentOverwrite ==
    (last.op = "render_frame" /\ last.repeat >= 1
     /\ blending_mode = "overwrite") =>
        last.pixels_out = last.pixels_in

\* a frame was rendered twice in a row in overwrite mode, with presses on
\* record, into a buffer that no longer holds the host's values
C14_Witness ==
    /\ last.op = "render_frame"
    /\ last.repeat = 1
    /\ blending_mode = "overwrite"
    /\ key_counts # ZeroCounts
    /\ last.pixels_in # FreshBuffer(num_pixels)
    /\ last.pixels_out = last.pixels_in

\* C15: render_frame changes only the buffer entries pixel_map[i], each to
\* the blend of its previous value (left) with the colour of slot i (right),
\* and leaves all other entries, the counters and the flag unchanged.
C15_RenderFrameEffect ==
    /\ [](last.op = "render_frame" =>
            /\ DOMAIN last.pixels_out = DOMAIN last.pixels_in
            /\ \A p \in DOMAIN last.pixels_in :
                   /\ (\A i \in Slots : pixel_map[i] # p) =>
                          last.pixels_out[p] = last.pixels_in[p]
                   /\ \A i \in Slots :
                          pixel_map[i] = p =>
                              last.pixels_out[p] =
                                  zmk_apply_blending_mode(
                                      last.pixels_in[p],
                                      SlotColour(last.hue[i]),
                                      blending_mode))
    /\ [][last'.op = "render_frame" =>
            /\ key_counts' = key_counts
            /\ is_active' = is_active
            /\ frames_requested' = frames_requested]_vars

\* a frame was rendered while active through the reversed map in overwrite
\* mode, the two ends of the map in different colours and the unmapped pixel
\* as the host left it
C15_Witness ==
    /\ last.op = "render_frame"
    /\ is_active
    /\ blending_mode = "overwrite"
    /\ pixel_map[0] = NumSlots - 1
    /\ last.hue[0] # last.hue[NumSlots - 1]
    /\ last.pixels_out[NumSlots - 1] = SlotColour(last.hue[0])
    /\ last.pixels_out[0] = SlotColour(last.hue[NumSlots - 1])
    /\ last.pixels_out[NumSlots] = FreshBuffer(num_pixels)[NumSlots]

\* C16 as stated: render_frame stores to no index >= the buffer length; a
\* slot whose pixel_map entry is out of range is skipped.
C16_Original ==
    last.op = "render_frame" =>
        /\ \A p \in last.stored : p < num_pixels
        /\ ~last.fault

\* C17 as stated: the presses the resolver attributes to physical pixel p
\* decide the colour of buffer[p]: the slot rendered into pixel p has the
\* usage of the presses counted for p.
C17_Original ==
    last.op = "render_frame" =>
        \A i \in Slots :
            pixel_map[i] \in Slots =>
                last.usage[i] =
                    Usage(U32(since_init[pixel_map[i]]), last.max_count)

\* C18 as stated: with the handlers interleaved between the reads of a
\* render_frame call, every count read in the pixel loop is <= the max_count
\* of the scan, and every usage is <= 1.
C18_Original ==
    rf.pc = "pixels" =>
        \A k \in 1 .. Len(rf.count) :
            /\ U32Le(rf.count[k], rf.max_count)
            /\ FloatLe(rf.usage[k], FloatOne)

\* C18 amended: the same, for a render_frame call during which no press has
\* been counted.
C18_NoCountedPress ==
    (rf.pc = "pixels" /\ rf.hits = 0) =>
        \A k \in 1 .. Len(rf.count) :
            /\ U32Le(rf.count[k], rf.max_count)
            /\ FloatLe(rf.usage[k], FloatOne)

\* a render_frame call read every counter in its pixel loop, a most-used
\* slot among them, while other handlers ran but counted no press
C18_Witness ==
    /\ rf.pc = "pixels"
    /\ rf.i = NumSlots
    /\ rf.interleaved
    /\ rf.hits = 0
    /\ \E k \in 1 .. Len(rf.count) :
           rf.count[k] = rf.max_count /\ rf.count[k] = U32(2)

====
